---- MODULE Spec2Model ----
(***************************************************************************)
(* Model of the Monarch Money ingestion pipeline (ingest_and_export.py):   *)
(* MonarchClient (session handling, paginated fetch with the 401 retry)    *)
(* and TransactionRepository (normalisation and the keyed upsert).         *)
(*                                                                         *)
(* Optional values (Python None / SQL NULL / an absent dict key read with  *)
(* dict.get) are one-element or empty tuples: <<v>> is the value v, <<>>   *)
(* is None.  Strings that the code inspects character by character are     *)
(* tuples of one-character strings.                                        *)
(***************************************************************************)
EXTENDS Integers, Sequences, FiniteSets, TLC

\* ---------------------------------------------------------------- bounds
MaxTotal == 5
MaxLimit == 2
MaxBatch == 2

\* ------------------------------------------------------- program constants
DEFAULT_PAGE_LIMIT == 100
MAX_RETRIES == 3

None == <<>>
Some(v) == <<v>>

VARIABLES
    \* ---- MonarchClient / session cache
    client,        \* self.client: None, <<0>> (a client object that holds no
                   \* session) or <<session id>>
    sessionFile,   \* SESSION_FILE: None (absent), <<0>> (unreadable) or <<session id>>
    nextSession,   \* id the service gives to the next freshly established session
    \* ---- one call of fetch_transactions
    pc,            \* position of the run
    limit,         \* page size argument of the call
    offset,        \* local variable offset
    total_count,   \* local variable total_count (None until the first page arrived)
    all_results,   \* local variable all_results: records <<request number, index>>
    log,           \* history, oldest first: page requests
                   \*   <<"req", offset, session used, how it ended, records>>
                   \* and executions of _create_fresh_client
                   \*   <<"reauth", offset, new session or 0, "ok" or "login", 0>>
    warned,        \* the "Received empty page" warning was logged
    outcome,       \* "running", "returned" or "raised"
    result,        \* the list fetch_transactions returned, or None
    raised,        \* the exception that left the call, or None
    \* ---- TransactionRepository / store
    store,         \* committed content of raw.monarch_transactions: id -> row
    work,          \* content as seen inside the open database transaction
    batch,         \* argument of upsert_transactions
    idx,           \* number of records of the batch already processed
    rows_upserted,
    rows_skipped,
    upc,           \* position of upsert_transactions
    storeBefore,   \* history: committed content when the call started
    uraised,       \* exception that left upsert_transactions, or None
    foreign,       \* history: identifiers that insert_test_row.py has written
    \* ---- one call of _transform_transaction
    arg_txn,       \* its argument txn
    transformed,   \* <<"pending">>, <<"returned", value>> or <<"raised", exception>>
    \* ---- one run of main
    config,        \* the environment: DATABASE_URL, MONARCH_EMAIL, MONARCH_PASSWORD,
                   \* MONARCH_MFA_SECRET, each None (unset), <<"">> or <<"set">>
    mpc,           \* position of main
    exported,      \* what exporter.export returned, or None
    noDateAt,      \* history: which transaction of the account the service
                   \* serves without a date
    \* ---- history of the page responses
    reported,      \* the totalCount of the latest successful page response,
                   \* or None
    \* ---- runs of the pipeline that share SESSION_FILE, step by step
    run,           \* for each run: pc (position), client (self.client), mm (the
                   \* local mm of _create_fresh_client), err (the exception
                   \* that ended the run, or None), inInit (initialize has not
                   \* returned), invalidations (401 answers met so far), and the
                   \* history fields firstFailed, fulls, atLogin, origin
    \* ---- the page requests of a call, from the send to the answer
    flight,        \* the requests sent and not yet answered: <<session, offset>>
    awaiting,      \* the coroutine is suspended in `await fetch_func(...)`
    \* ---- calls of upsert_transactions on connections of their own
    conn           \* for each connection: pc (position), batch (the argument),
                   \* idx, writes (the payloads of its open database
                   \* transaction), rows_upserted, rows_skipped

clientVars == <<client, sessionFile, nextSession>>
fetchVars == <<pc, limit, offset, total_count, all_results, log,
               warned, outcome, result, raised>>
storeVars == <<store, work, batch, idx, rows_upserted, rows_skipped, upc,
               storeBefore, uraised, foreign>>
normVars == <<arg_txn, transformed>>
mainVars == <<config, mpc, exported, noDateAt>>
respVars == <<reported>>
sessVars == <<run>>
flightVars == <<flight, awaiting>>
connVars == <<conn>>
moreVars == <<flightVars, connVars>>
vars == <<clientVars, fetchVars, storeVars, normVars, mainVars, respVars,
          sessVars, moreVars>>

\* ------------------------------------------------------------ error values
\* str(error), character by character
Msg401 == <<"H", "T", "T", "P", " ", "4", "0", "1">>
MsgUnauthorized == <<"U", "n", "a", "u", "t", "h", "o", "r", "i", "z", "e", "d">>
MsgTimeout == <<"t", "i", "m", "e", "o", "u", "t">>
MsgPort == <<"p", "o", "r", "t", " ", "8", "4", "0", "1">>
Msg429 == <<"H", "T", "T", "P", " ", "4", "2", "9">>
MsgKey == <<"K", "e", "y">>
MsgLogin == <<"l", "o", "g", "i", "n">>
MsgNotInit == <<"i", "n", "i", "t">>

\* the errors a page request can fail with: kind is what really happened at
\* the service or on the network, msg is the text the exception carries
PageErrors ==
    { [kind |-> "unauthorized", msg |-> Msg401],
      [kind |-> "unauthorized", msg |-> MsgUnauthorized],
      [kind |-> "network", msg |-> MsgTimeout],
      [kind |-> "network", msg |-> MsgPort],
      [kind |-> "ratelimit", msg |-> Msg429] }

KeyError == [kind |-> "malformed", msg |-> MsgKey]
LoginError == [kind |-> "login", msg |-> MsgLogin]
MonarchAPIError == [kind |-> "notinitialized", msg |-> MsgNotInit]

\* str.lower() on one character
LowerChar(c) ==
    CASE c = "H" -> "h"
      [] c = "T" -> "t"
      [] c = "P" -> "p"
      [] c = "U" -> "u"
      [] c = "K" -> "k"
      [] OTHER -> c

Lower(s) == [i \in 1..Len(s) |-> LowerChar(s[i])]

\* Python's `sub in s` on strings
Contains(sub, s) ==
    \E i \in 0..(Len(s) - Len(sub)) :
        \A j \in 1..Len(sub) : s[i + j] = sub[j]

IsUnauthorizedNever(error) == FALSE

IsUnauthorizedAlways(error) == TRUE

\* a test that stops matching once MAX_RETRIES re-authentications were made
IsUnauthorizedWithinBudget(error) ==
    /\ \/ Contains(<<"4", "0", "1">>, Lower(error.msg))
       \/ Contains(Lower(MsgUnauthorized), Lower(error.msg))
    /\ Cardinality({i \in 1..Len(log) : log[i][1] = "reauth"}) < MAX_RETRIES

\* MonarchClient._is_unauthorized_error
_is_unauthorized_error(error) ==
    LET msg == Lower(error.msg)
    IN Contains(<<"4", "0", "1">>, msg)
         \/ Contains(<<"u", "n", "a", "u", "t", "h", "o", "r", "i", "z", "e", "d">>, msg)

\* ------------------------------------------------- the remote service's answers
\* a page response {allTransactions: {totalCount: T, results: [k records]}}
PageResponses(lim) == [totalCount : 0..MaxTotal, n : 0..lim]

\* the records of the page that answers request number req
PageRecords(req, n) == [i \in 1..n |-> <<req, i>>]

\* the log entry of a page request sent now
Req(how, n) == <<"req", offset, client[1], how, n>>

NumRequests(l) == Cardinality({i \in 1..Len(l) : l[i][1] = "req"})

\* ------------------------------------------------------------ MonarchClient
\* an exception leaves fetch_transactions (or initialize)
Raise(e) ==
    /\ pc' = "done"
    /\ outcome' = "raised"
    /\ raised' = Some(e)
    /\ UNCHANGED result

\* `return all_results`
Return(res) ==
    /\ pc' = "done"
    /\ outcome' = "returned"
    /\ result' = Some(res)
    /\ UNCHANGED raised

\* `offset += limit`
AdvanceOffsetStuck(off, lim) == off

AdvanceOffset(off, lim) == off + lim

\* the loop condition `len(all_results) < total_count`
LoopContinuesAlways(acc, total) == TRUE

LoopContinues(acc, total) == Len(acc) < total

\* the safety guard `if not results`
EmptyPageNever(n) == FALSE

EmptyPage(n) == n = 0

\* a list that takes each page in front of the earlier ones
ExtendInFront(acc, results) == results \o acc

\* `all_results.extend(results)`
Extend(acc, results) == acc \o results

\* the value of total_count after a page: read from the response latest
\* received
StoppingBoundLatest(first, totalCount, kept) == totalCount

\* the value of total_count after a page: `total_count = ...["totalCount"]`
\* stands in the code of the first page only
StoppingBound(first, totalCount, kept) == IF first THEN totalCount ELSE kept[1]

\* The code that follows a page request that returned `data`: the first page
\* (total_count still None) sets total_count and is accumulated whatever its
\* size; a later page is first tested by the safety guard.  Then the loop
\* condition decides between another request and the return.
ProcessPage(resp, req) ==
    LET results == PageRecords(req, resp.n)
        first == total_count = None
        total == StoppingBound(first, resp.totalCount, total_count)
        acc == Extend(all_results, results)
    IN /\ total_count' = Some(total)
       /\ IF ~first /\ EmptyPage(resp.n)
          THEN /\ warned' = TRUE
               /\ Return(all_results)
               /\ UNCHANGED <<all_results, offset>>
          ELSE /\ all_results' = acc
               /\ offset' = AdvanceOffset(offset, limit)
               /\ UNCHANGED warned
               /\ IF LoopContinues(acc, total)
                  THEN /\ pc' = "page"
                       /\ UNCHANGED <<outcome, result, raised>>
                  ELSE Return(acc)

\* MonarchClient.initialize: a login that may reuse the cached session and,
\* when it raises, _create_fresh_client.
Initialize ==
    /\ pc = "init"
    /\ UNCHANGED <<limit, offset, total_count, all_results, log, warned,
                   storeVars>>
    /\ \/ \* the cached session is loaded; no login request is sent
          /\ sessionFile # None /\ sessionFile # Some(0)
          /\ client' = sessionFile
          /\ pc' = "start"
          /\ UNCHANGED <<sessionFile, nextSession, outcome, result, raised>>
       \/ \* no cache: the first login is a full login and succeeds
          /\ sessionFile = None
          /\ client' = Some(nextSession)
          /\ sessionFile' = Some(nextSession)
          /\ nextSession' = nextSession + 1
          /\ pc' = "start"
          /\ UNCHANGED <<outcome, result, raised>>
       \/ \* the first login raises (unreadable cache, or the service refuses);
          \* _create_fresh_client removes the cache and logs in
          /\ \E ok \in BOOLEAN :
                /\ IF ok
                   THEN /\ client' = Some(nextSession)
                        /\ sessionFile' = Some(nextSession)
                        /\ nextSession' = nextSession + 1
                        /\ pc' = "start"
                        /\ UNCHANGED <<outcome, result, raised>>
                   ELSE /\ client' = Some(0)
                        /\ sessionFile' = None
                        /\ UNCHANGED nextSession
                        /\ Raise(LoginError)
          /\ sessionFile \in {None, Some(0)}

\* fetch_transactions up to its first page request, called with a limit
\* out of limits
FetchStartWith(limits) ==
    /\ pc \in {"init", "start"}
    /\ UNCHANGED <<clientVars, log, warned, storeVars>>
    /\ IF client = None
       THEN /\ Raise(MonarchAPIError)
            /\ UNCHANGED <<limit, offset, total_count, all_results>>
       ELSE /\ \E l \in limits : limit' = l
            /\ all_results' = <<>>
            /\ offset' = 0
            /\ total_count' = None
            /\ pc' = "page"
            /\ UNCHANGED <<outcome, result, raised>>

\* fetch_transactions called by a caller that chooses the limit freely
FetchStart == FetchStartWith(1..MaxLimit)

\* _fetch_with_retry, the first `await fetch_func(...)`, and what follows it,
\* when the service answers with a response out of responses, a response
\* that lacks a key (malformed = {TRUE}) or an error out of errors
FetchPageFrom(responses, malformed, errors) ==
    /\ pc = "page"
    /\ UNCHANGED <<clientVars, limit, storeVars>>
    /\ \/ \E resp \in responses :
             /\ log' = Append(log, Req("ok", resp.n))
             /\ ProcessPage(resp, NumRequests(log) + 1)
       \/ \* data lacks a key: KeyError outside _fetch_with_retry
          /\ TRUE \in malformed
          /\ log' = Append(log, Req("malformed", 0))
          /\ Raise(KeyError)
          /\ UNCHANGED <<offset, total_count, all_results, warned>>
       \/ \E e \in errors :
             /\ log' = Append(log, Req(e.kind, 0))
             /\ UNCHANGED <<offset, total_count, all_results, warned>>
             /\ IF _is_unauthorized_error(e)
                THEN /\ pc' = "reauth"
                     /\ UNCHANGED <<outcome, result, raised>>
                ELSE Raise(e)

\* a page request to a service that may answer anything
FetchPage == FetchPageFrom(PageResponses(limit), {TRUE}, PageErrors)

\* an assignment that stores None when the awaited call raises
AssignmentClears(current) == None

\* `self.client = await ...` when the awaited call raises: the assignment is
\* not executed
AssignmentSkipped(current) == current

\* _fetch_with_retry, `self.client = await self._create_fresh_client()`
Reauth ==
    /\ pc = "reauth"
    /\ UNCHANGED <<limit, offset, total_count, all_results, warned, storeVars>>
    /\ \/ /\ log' = Append(log, <<"reauth", offset, nextSession, "ok", 0>>)
          /\ client' = Some(nextSession)
          /\ sessionFile' = Some(nextSession)
          /\ nextSession' = nextSession + 1
          /\ pc' = "retry"
          /\ UNCHANGED <<outcome, result, raised>>
       \/ /\ log' = Append(log, <<"reauth", offset, 0, "login", 0>>)
          /\ sessionFile' = None
          /\ client' = AssignmentSkipped(client)
          /\ UNCHANGED nextSession
          /\ Raise(LoginError)

\* _fetch_with_retry, the second `await fetch_func(...)`: whatever it raises
\* leaves fetch_transactions
RetryPageLoops ==
    /\ pc = "retry"
    /\ UNCHANGED <<clientVars, limit, storeVars>>
    /\ \/ \E resp \in PageResponses(limit) :
             /\ log' = Append(log, Req("ok", resp.n))
             /\ ProcessPage(resp, NumRequests(log) + 1)
       \/ /\ log' = Append(log, Req("malformed", 0))
          /\ Raise(KeyError)
          /\ UNCHANGED <<offset, total_count, all_results, warned>>
       \/ \E e \in PageErrors :
             /\ log' = Append(log, Req(e.kind, 0))
             /\ UNCHANGED <<offset, total_count, all_results, warned>>
             /\ IF _is_unauthorized_error(e) /\ NumRequests(log) < 2 * MaxTotal + 4
                THEN /\ pc' = "reauth"
                     /\ UNCHANGED <<outcome, result, raised>>
                ELSE Raise(e)

RetryPageFrom(responses, malformed, errors) ==
    /\ pc = "retry"
    /\ UNCHANGED <<clientVars, limit, storeVars>>
    /\ \/ \E resp \in responses :
             /\ log' = Append(log, Req("ok", resp.n))
             /\ ProcessPage(resp, NumRequests(log) + 1)
       \/ /\ TRUE \in malformed
          /\ log' = Append(log, Req("malformed", 0))
          /\ Raise(KeyError)
          /\ UNCHANGED <<offset, total_count, all_results, warned>>
       \/ \E e \in errors :
             /\ log' = Append(log, Req(e.kind, 0))
             /\ Raise(e)
             /\ UNCHANGED <<offset, total_count, all_results, warned>>

RetryPage == RetryPageFrom(PageResponses(limit), {TRUE}, PageErrors)


\* ---------------------------------------------------- TransactionRepository
\* dict.get(key): the value, or None when the key is absent
Get(d, key) == IF key \in DOMAIN d THEN d[key] ELSE None

\* isinstance(current, dict), for the values a sub-object takes here: a dict
\* or null
IsDict(current) == current # None

\* TransactionRepository._safe_get, from `current` on
RECURSIVE SafeGetFrom(_, _)
SafeGetFrom(current, path) ==
    IF path = <<>>
    THEN current
    ELSE IF ~IsDict(current) \/ Head(path) \notin DOMAIN current[1]
         THEN None
         ELSE SafeGetFrom(current[1][Head(path)], Tail(path))

\* a lookup that stops at the first level
SafeGetFirstLevel(d, path) == Get(d, Head(path))

_safe_get(d, path) == SafeGetFrom(Some(d), path)

\* two-digit tokens "01".."31"; the number of a token is its index
TwoDigits ==
    << "01", "02", "03", "04", "05", "06", "07", "08", "09", "10",
       "11", "12", "13", "14", "15", "16", "17", "18", "19", "20",
       "21", "22", "23", "24", "25", "26", "27", "28", "29", "30", "31" >>

IsTwoDigits(tok) == \E i \in 1..Len(TwoDigits) : TwoDigits[i] = tok
NumberOf(tok) == CHOOSE i \in 1..Len(TwoDigits) : TwoDigits[i] = tok

\* four-digit year tokens and their numbers
YearTokens == <<"2023", "2024">>
IsYear(tok) == \E i \in 1..Len(YearTokens) : YearTokens[i] = tok
YearOf(tok) == 2022 + (CHOOSE i \in 1..Len(YearTokens) : YearTokens[i] = tok)

IsLeap(y) == (y % 4 = 0 /\ y % 100 # 0) \/ y % 400 = 0

DaysInMonth(y, m) ==
    IF m = 2 THEN (IF IsLeap(y) THEN 29 ELSE 28)
    ELSE IF m \in {4, 6, 9, 11} THEN 30 ELSE 31

\* datetime.strptime(s, "%Y-%m-%d") accepts s (a string cut into tokens)
MatchesFormat(s) ==
    /\ Len(s) = 5
    /\ s[2] = "-" /\ s[4] = "-"
    /\ IsYear(s[1])
    /\ IsTwoDigits(s[3]) /\ NumberOf(s[3]) <= 12
    /\ IsTwoDigits(s[5])
    /\ NumberOf(s[5]) <= DaysInMonth(YearOf(s[1]), NumberOf(s[3]))

\* TransactionRepository._parse_date raises ValueError
ParseDateRaises(date_str) ==
    /\ date_str # None
    /\ date_str[1] # <<>>
    /\ ~MatchesFormat(date_str[1])

\* TransactionRepository._parse_date, when it does not raise
_parse_date(date_str) ==
    IF date_str = None \/ date_str[1] = <<>>
    THEN None
    ELSE Some([year |-> YearOf(date_str[1][1]),
               month |-> NumberOf(date_str[1][3]),
               day |-> NumberOf(date_str[1][5])])

\* Python truthiness of an identifier (None and "" are falsy) and of a flag
TruthyStr(v) == v # None /\ v[1] # ""
TruthyBool(v) == v # None /\ v[1]

\* Python's `a or b`
PyOr(a, b) == IF TruthyBool(a) THEN a ELSE b

\* json.dumps(txn): the serialised text of the record
json_dumps(txn) == [json |-> txn]

\* the columns of raw.monarch_transactions that the statements name
Columns ==
    { "transaction_id", "txn_date", "amount", "merchant_name", "category_name",
      "category_group", "account_id", "account_name", "account_owner", "notes",
      "is_pending", "is_transfer", "created_at", "updated_at", "raw_json" }

\* a test that rejects nothing
IsInvalidNever(transaction_id, txn_date, amount) == FALSE

\* the rejection test of _transform_transaction
IsInvalid(transaction_id, txn_date, amount) ==
    ~TruthyStr(transaction_id) \/ txn_date = None \/ amount = None

\* TransactionRepository._transform_transaction raises
TransformRaises(txn) == ParseDateRaises(Get(txn, "date"))

\* TransactionRepository._transform_transaction, when it does not raise:
\* None, or <<the payload>>
_transform_transaction(txn) ==
    LET transaction_id == Get(txn, "id")
        txn_date == _parse_date(Get(txn, "date"))
        amount == Get(txn, "amount")
    IN IF IsInvalid(transaction_id, txn_date, amount)
       THEN None
       ELSE Some([transaction_id |-> transaction_id,
                  txn_date |-> txn_date,
                  amount |-> amount,
                  merchant_name |-> _safe_get(txn, <<"merchant", "name">>),
                  category_name |-> _safe_get(txn, <<"category", "name">>),
                  category_group |-> None,
                  account_id |-> _safe_get(txn, <<"account", "id">>),
                  account_name |-> _safe_get(txn, <<"account", "displayName">>),
                  account_owner |-> None,
                  notes |-> Get(txn, "notes"),
                  is_pending |-> Get(txn, "pending"),
                  is_transfer |-> PyOr(Get(txn, "isTransfer"), Get(txn, "is_transfer")),
                  created_at |-> Get(txn, "createdAt"),
                  updated_at |-> Get(txn, "updatedAt"),
                  raw_json |-> Some(json_dumps(txn))])

\* the columns assigned by ON CONFLICT ... DO UPDATE SET of UPSERT_SQL
UPSERT_SET ==
    { "txn_date", "amount", "merchant_name", "category_name", "account_id",
      "account_name", "notes", "is_pending", "created_at", "updated_at",
      "is_transfer", "raw_json" }

\* the columns assigned on conflict by the statement of insert_test_row.py
TEST_ROW_SET == {"amount", "updated_at", "raw_json"}

\* INSERT without the ON CONFLICT clause, on a table without the unique key
InsertAlways(tbl, payload, setCols) == Append(tbl, payload)

\* INSERT ... ON CONFLICT (transaction_id) DO UPDATE SET <setCols> on the
\* table tbl (a sequence of rows)
InsertOnConflictUpdate(tbl, payload, setCols) ==
    IF \E i \in 1..Len(tbl) : tbl[i].transaction_id = payload.transaction_id
    THEN [i \in 1..Len(tbl) |->
            IF tbl[i].transaction_id = payload.transaction_id
            THEN [c \in Columns |->
                    IF c \in setCols THEN payload[c] ELSE tbl[i][c]]
            ELSE tbl[i]]
    ELSE Append(tbl, payload)

\* conn.rollback(): the content visible afterwards
RollbackKeepsWork(committed, working) == working

Rollback(committed, working) == committed

\* the row that insert_test_row.py writes
TestRow ==
    [transaction_id |-> Some("test_txn_001"),
     txn_date |-> Some([year |-> 2024, month |-> 1, day |-> 5]),
     amount |-> Some(-12),
     merchant_name |-> Some("Test Merchant"),
     category_name |-> Some("Test Category"),
     category_group |-> Some("Test Group"),
     account_id |-> Some("acct_test_001"),
     account_name |-> Some("Test Account"),
     account_owner |-> Some("Test Owner"),
     notes |-> Some("hello world"),
     is_pending |-> Some(FALSE),
     is_transfer |-> Some(FALSE),
     created_at |-> None,
     updated_at |-> None,
     raw_json |-> Some(json_dumps([source |-> Some("insert_test_row.py")]))]

\* ------------------------------------------- the records a batch is made of
DateJan5 == <<"2024", "-", "01", "-", "05">>
DateFeb29 == <<"2024", "-", "02", "-", "29">>
DateFeb30 == <<"2024", "-", "02", "-", "30">>
DateSlashes == <<"01", "/", "05", "/", "2024">>

TxnA1 ==
    [id |-> Some("test_txn_001"), date |-> Some(DateJan5), amount |-> Some(5),
     merchant |-> Some([name |-> Some("Cafe")]), notes |-> Some("first"),
     pending |-> Some(TRUE), updatedAt |-> Some(1)]
TxnA2 ==
    [id |-> Some("test_txn_001"), date |-> Some(DateFeb29), amount |-> Some(0),
     merchant |-> None, updatedAt |-> Some(2)]
TxnB1 ==
    [id |-> Some("txn_b"), date |-> Some(DateJan5), amount |-> Some(7),
     isTransfer |-> Some(TRUE)]
TxnNoId == [date |-> Some(DateJan5), amount |-> Some(5)]
TxnEmptyId == [id |-> Some(""), date |-> Some(DateJan5), amount |-> Some(5)]
TxnNoDate == [id |-> Some("txn_b"), amount |-> Some(5)]
TxnNoAmount == [id |-> Some("test_txn_001"), date |-> Some(DateFeb29), amount |-> None]
TxnBadDate == [id |-> Some("txn_b"), date |-> Some(DateSlashes), amount |-> Some(3)]
TxnNoIdBadDate == [date |-> Some(DateFeb30), amount |-> Some(1)]

TxnPool ==
    { TxnA1, TxnA2, TxnB1, TxnNoId, TxnEmptyId, TxnNoDate, TxnNoAmount,
      TxnBadDate, TxnNoIdBadDate }

Batches == UNION {[1..n -> TxnPool] : n \in 0..MaxBatch}

\* ------------------------------------------------------ upsert_transactions
\* psycopg2.connect, conn.cursor(), the counters: the call starts and opens a
\* database transaction on the committed content
UpsertBeginWith(transactions) ==
    /\ upc = "idle"
    /\ batch' = transactions
    /\ idx' = 0
    /\ rows_upserted' = 0
    /\ rows_skipped' = 0
    /\ work' = store
    /\ storeBefore' = store
    /\ uraised' = None
    /\ upc' = "rows"
    /\ UNCHANGED <<store, foreign, clientVars, fetchVars>>

\* a call with any batch
UpsertBegin == \E b \in Batches : UpsertBeginWith(b)

\* a counter that is never advanced
IncrementStuck(counter) == counter

\* `rows_skipped += 1`, `rows_upserted += 1`
Increment(counter) == counter + 1

\* one iteration of `for txn in transactions`
UpsertRow ==
    /\ upc = "rows"
    /\ idx < Len(batch)
    /\ idx' = idx + 1
    /\ UNCHANGED <<batch, storeBefore, foreign, clientVars, fetchVars>>
    /\ LET txn == batch[idx + 1]
       IN \/ \* _transform_transaction raises: except branch, rollback, raise
             /\ TransformRaises(txn)
             /\ store' = Rollback(store, work)
             /\ work' = store'
             /\ uraised' = Some("ValueError")
             /\ upc' = "raised"
             /\ UNCHANGED <<rows_upserted, rows_skipped>>
          \/ \* `if not payload`: skipped
             /\ ~TransformRaises(txn)
             /\ _transform_transaction(txn) = None
             /\ rows_skipped' = Increment(rows_skipped)
             /\ UNCHANGED <<store, work, rows_upserted, upc, uraised>>
          \/ \* cur.execute(UPSERT_SQL, payload) succeeds
             /\ ~TransformRaises(txn)
             /\ _transform_transaction(txn) # None
             /\ work' = InsertOnConflictUpdate(work, _transform_transaction(txn)[1],
                                               UPSERT_SET)
             /\ rows_upserted' = Increment(rows_upserted)
             /\ UNCHANGED <<store, rows_skipped, upc, uraised>>
          \/ \* cur.execute raises a storage error: rollback, raise
             /\ ~TransformRaises(txn)
             /\ _transform_transaction(txn) # None
             /\ store' = Rollback(store, work)
             /\ work' = store'
             /\ uraised' = Some("StorageError")
             /\ upc' = "raised"
             /\ UNCHANGED <<rows_upserted, rows_skipped>>

\* conn.commit() after the loop, and `return rows_upserted`
UpsertCommit ==
    /\ upc = "rows"
    /\ idx = Len(batch)
    /\ UNCHANGED <<batch, idx, rows_upserted, rows_skipped, storeBefore,
                   foreign, clientVars, fetchVars>>
    /\ \/ /\ store' = work
          /\ upc' = "returned"
          /\ UNCHANGED <<work, uraised>>
       \/ \* the commit itself fails: except branch, rollback, raise
          /\ store' = Rollback(store, work)
          /\ work' = store'
          /\ uraised' = Some("StorageError")
          /\ upc' = "raised"

\* `finally: cur.close(); conn.close()` and the return to the caller: the
\* connection and the locals of the call are gone
UpsertFinish ==
    /\ upc \in {"returned", "raised"}
    /\ upc' = "idle"
    /\ batch' = <<>>
    /\ idx' = 0
    /\ rows_upserted' = 0
    /\ rows_skipped' = 0
    /\ work' = store
    /\ storeBefore' = store
    /\ uraised' = None
    /\ UNCHANGED <<store, foreign, clientVars, fetchVars>>

\* a run of the script insert_test_row.py (one statement, then commit) while
\* no upsert_transactions call is in progress
InsertTestRow ==
    /\ upc = "idle"
    /\ store' = InsertOnConflictUpdate(store, TestRow, TEST_ROW_SET)
    /\ work' = store'
    /\ storeBefore' = store'
    /\ foreign' = foreign \cup {"test_txn_001"}
    /\ UNCHANGED <<batch, idx, rows_upserted, rows_skipped, upc, uraised,
                   clientVars, fetchVars>>

\* ---------------------------------------------------------- specifications
\* the state after MonarchClient(...) was constructed, with whatever session
\* cache an earlier run left behind, and before any database call
InitClient ==
    /\ client = None
    /\ sessionFile \in {None, Some(0), Some(1)}
    /\ nextSession = 2
    /\ pc = "init"
    /\ limit = DEFAULT_PAGE_LIMIT
    /\ offset = 0
    /\ total_count = None
    /\ all_results = <<>>
    /\ log = <<>>
    /\ warned = FALSE
    /\ outcome = "running"
    /\ result = None
    /\ raised = None

InitStore ==
    /\ store = <<>>
    /\ work = <<>>
    /\ batch = <<>>
    /\ idx = 0
    /\ rows_upserted = 0
    /\ rows_skipped = 0
    /\ upc = "idle"
    /\ storeBefore = <<>>
    /\ uraised = None
    /\ foreign = {}

\* no call of _transform_transaction on its own is in progress
InitNoTransform ==
    /\ arg_txn = [id |-> None]
    /\ transformed = <<"pending">>

\* no run of main is in progress
InitNoMain ==
    /\ config = <<>>
    /\ mpc = "none"
    /\ exported = None
    /\ noDateAt = 0

\* no page response has been recorded
InitNoResponse == reported = None

\* the runs of the pipeline, by name
Runs == {"a", "b"}

\* a run before MonarchClient.initialize is called
NewRun ==
    [pc |-> "new", client |-> None, mm |-> None, err |-> None,
     inInit |-> TRUE, invalidations |-> 0,
     firstFailed |-> FALSE,  \* history: the first login attempt raised
     fulls |-> 0,            \* history: full logins issued inside initialize
     atLogin |-> {},         \* history: SESSION_FILE.exists() at each full login
     origin |-> "none"]      \* history: where self.client's session came from

InitRuns == run = [r \in Runs |-> NewRun]

\* no run is followed step by step
InitNoRuns == run = <<>>

\* no page request is followed from its send to its answer, and no
\* connection of its own is open
InitNoMore ==
    /\ flight = {}
    /\ awaiting = FALSE
    /\ conn = <<>>

Init ==
    /\ InitClient /\ InitStore /\ InitNoTransform /\ InitNoMain
    /\ InitNoResponse /\ InitNoRuns /\ InitNoMore

\* two runs about to start, with whatever cache an earlier run left behind
InitSession ==
    /\ InitClient /\ InitStore /\ InitNoTransform /\ InitNoMain
    /\ InitNoResponse /\ InitRuns /\ InitNoMore

\* one MonarchClient: initialize, then one call of fetch_transactions
Next ==
    \/ Initialize /\ UNCHANGED <<normVars, mainVars, respVars, sessVars, moreVars>>
    \/ FetchStart /\ UNCHANGED <<normVars, mainVars, respVars, sessVars, moreVars>>
    \/ FetchPage /\ UNCHANGED <<normVars, mainVars, respVars, sessVars, moreVars>>
    \/ Reauth /\ UNCHANGED <<normVars, mainVars, respVars, sessVars, moreVars>>
    \/ RetryPage /\ UNCHANGED <<normVars, mainVars, respVars, sessVars, moreVars>>

Spec == Init /\ [][Next]_vars

\* every awaited request is eventually answered (by a response or an error)
FairSpec == Init /\ [][Next]_vars /\ WF_vars(Next)

\* the store: calls of upsert_transactions, one after the other, and runs of
\* insert_test_row.py between them
NextStore ==
    \/ UpsertBegin /\ UNCHANGED <<normVars, mainVars, respVars, sessVars, moreVars>>
    \/ UpsertRow /\ UNCHANGED <<normVars, mainVars, respVars, sessVars, moreVars>>
    \/ UpsertCommit /\ UNCHANGED <<normVars, mainVars, respVars, sessVars, moreVars>>
    \/ UpsertFinish /\ UNCHANGED <<normVars, mainVars, respVars, sessVars, moreVars>>
    \/ InsertTestRow /\ UNCHANGED <<normVars, mainVars, respVars, sessVars, moreVars>>

InitStoreOnly == Init /\ sessionFile = None

SpecStore == InitStoreOnly /\ [][NextStore]_vars

\* --------------------------------- _transform_transaction on its own
\* how a key of a dict can look: absent, or present with a value
Absent == <<"absent">>
Present(v) == <<"present", v>>

\* the dict {key: value}, or {} when the key is absent
Entry(key, shape) == IF shape = Absent THEN <<>> ELSE key :> shape[2]

\* a sub-object with one key name: missing, null, without the key, with it
SubObjects(key, value) ==
    { Absent, Present(None), Present(Some(<<>>)),
      Present(Some(key :> Some(value))) }

\* the account sub-object: missing, null, and every subset of its two keys
AccountObjects ==
    { Absent, Present(None) } \cup
    { Present(Some(Entry("id", i) @@ Entry("displayName", n))) :
        i \in {Absent, Present(Some("acct_1"))},
        n \in {Absent, Present(Some("Checking"))} }

\* the flags as the service may send them
FlagShapes == {Absent, Present(None), Present(Some(FALSE)), Present(Some(TRUE))}

\* records that pass the validity rule, in every shape of the sub-objects
\* and flags, and two records that do not pass it
TransformInputs ==
    { [id |-> Some("txn_n"), date |-> Some(DateJan5), amount |-> Some(3)]
        @@ Entry("merchant", m) @@ Entry("category", c) @@ Entry("account", a)
        @@ Entry("isTransfer", t) @@ Entry("is_transfer", u) @@ Entry("pending", p) :
        m \in SubObjects("name", "Cafe"),
        c \in SubObjects("name", "Food"),
        a \in AccountObjects,
        t \in FlagShapes,
        u \in FlagShapes \ {Present(None)},
        p \in FlagShapes }
    \cup {TxnNoDate, TxnBadDate}

\* one call of _transform_transaction
Transform ==
    /\ transformed = <<"pending">>
    /\ transformed' = IF TransformRaises(arg_txn)
                      THEN <<"raised", "ValueError">>
                      ELSE <<"returned", _transform_transaction(arg_txn)>>
    /\ UNCHANGED <<arg_txn, clientVars, fetchVars, storeVars>>

InitTransform ==
    /\ InitClient /\ sessionFile = None
    /\ InitStore
    /\ arg_txn \in TransformInputs
    /\ transformed = <<"pending">>
    /\ InitNoMain
    /\ InitNoResponse
    /\ InitNoRuns
    /\ InitNoMore

NextTransform == Transform /\ UNCHANGED <<mainVars, respVars, sessVars, moreVars>>

SpecTransform == InitTransform /\ [][NextTransform]_vars

\* ------------------------------------------------- reading the history (log)
IsReq(e) == e[1] = "req"

\* the offsets of the page requests, in the order they were sent
ReqOffsets ==
    LET reqs == SelectSeq(log, IsReq)
    IN [i \in 1..Len(reqs) |-> reqs[i][2]]

\* log entry i is a page request that is not the retry after a re-authentication
FirstAttempt(i) == IsReq(log[i]) /\ (i = 1 \/ log[i - 1][1] # "reauth")

\* the records of the successful pages among the first k log entries, in
\* request order
RECURSIVE Collected(_)
Collected(k) ==
    IF k = 0
    THEN <<>>
    ELSE Collected(k - 1) \o
           (IF IsReq(log[k]) /\ log[k][4] = "ok"
            THEN PageRecords(NumRequests(SubSeq(log, 1, k)), log[k][5])
            ELSE <<>>)

Min(a, b) == IF a < b THEN a ELSE b
Max(a, b) == IF a > b THEN a ELSE b
CeilDiv(a, b) == (a + b - 1) \div b

\* the total count reported by the first successful page
Total == total_count[1]

\* no request of the call failed
NoFailure == \A i \in 1..Len(log) : IsReq(log[i]) /\ log[i][4] = "ok"

\* every page held min(limit, remaining) records
FullPages ==
    \A i \in 1..Len(log) :
        log[i][5] = Min(limit, Max(Total - Len(Collected(i - 1)), 0))

\* C1 (pagination completeness): when fetch_transactions has returned, no
\* request failed and every page was full (min(limit, remaining) records),
\* the requests were issued at exactly the offsets 0, L, 2L, ... (ceil(T/L)
\* of them, one when T = 0) and exactly T records were returned.
C1_PaginationComplete ==
    (outcome = "returned" /\ NoFailure /\ FullPages) =>
        /\ ReqOffsets =
             [i \in 1..(IF Total = 0 THEN 1 ELSE CeilDiv(Total, limit)) |->
                (i - 1) * limit]
        /\ Len(result[1]) = Total

\* the scaled 250/100 case: T = 5, L = 2, requests at 0, 2, 4, 5 records
C1_Witness ==
    /\ outcome = "returned" /\ NoFailure /\ FullPages
    /\ Total = 5 /\ limit = 2
    /\ ReqOffsets = <<0, 2, 4>>
    /\ Len(result[1]) = 5

\* C2 (auth retry once, success path): a first attempt that fails with an
\* unauthorized error is followed by exactly one re-authentication and, when
\* that succeeds, by exactly one retry at the same offset; after a successful
\* retry its records are accumulated and the next request, if any, is at
\* offset + limit.  No offset is requested more than twice, and a second
\* request at an offset comes directly after a re-authentication.
C2_AuthRetryOnce ==
    /\ \A i \in 1..Len(log) :
         (FirstAttempt(i) /\ log[i][4] = "unauthorized") =>
            IF i = Len(log)
            THEN pc = "reauth" /\ outcome = "running"
            ELSE /\ log[i + 1][1] = "reauth"
                 /\ log[i + 1][2] = log[i][2]
                 /\ log[i + 1][4] = "ok" =>
                      IF i + 1 = Len(log)
                      THEN pc = "retry" /\ outcome = "running" /\ offset = log[i][2]
                      ELSE /\ IsReq(log[i + 2])
                           /\ log[i + 2][2] = log[i][2]
                           /\ i + 3 <= Len(log) =>
                                /\ IsReq(log[i + 3])
                                /\ log[i + 3][2] = log[i][2] + limit
                           /\ log[i + 2][4] = "ok" =>
                                /\ \A k \in 1..log[i + 2][5] :
                                      \E n \in 1..Len(all_results) :
                                         all_results[n] =
                                           <<NumRequests(SubSeq(log, 1, i + 2)), k>>
                                /\ (i + 2 = Len(log) /\ pc = "page") =>
                                     offset = log[i][2] + limit
    /\ \A i \in 1..Len(log) :
         IF IsReq(log[i])
         THEN \* two requests at one offset are a first attempt and its
              \* retry, so that no offset is requested more than twice
              \A j \in (i + 1)..Len(log) :
                 (IsReq(log[j]) /\ log[i][2] = log[j][2]) =>
                    j = i + 2 /\ log[i + 1][1] = "reauth"
         ELSE i > 1 /\ FirstAttempt(i - 1) /\ log[i - 1][2] = log[i][2]

\* a page after the first failed with 401, was retried once at the same offset
\* with success, and the fetch went on to the next offset and returned
C2_Witness ==
    /\ outcome = "returned"
    /\ \E i \in 2..Len(log) :
          /\ i + 3 <= Len(log)
          /\ FirstAttempt(i) /\ log[i][4] = "unauthorized"
          /\ log[i + 1][1] = "reauth"
          /\ IsReq(log[i + 2]) /\ log[i + 2][4] = "ok" /\ log[i + 2][5] > 0
          /\ log[i + 3][2] = log[i][2] + limit

\* C3 (auth retry once, failure path): when the retry after the
\* re-authentication fails again with an unauthorized error, that error leaves
\* fetch_transactions: the failed retry is the last thing the call did (no
\* second re-authentication, no third request) and nothing is returned.
C3_SecondUnauthorizedIsFatal ==
    \A i \in 1..Len(log) :
        ( /\ i + 2 <= Len(log)
          /\ FirstAttempt(i) /\ log[i][4] = "unauthorized"
          /\ log[i + 1][1] = "reauth"
          /\ IsReq(log[i + 2]) /\ log[i + 2][4] = "unauthorized" ) =>
            /\ i + 2 = Len(log)
            /\ pc = "done"
            /\ outcome = "raised"
            /\ raised # None
            /\ raised[1] \in PageErrors
            /\ raised[1].kind = log[i + 2][4]
            /\ result = None

C3_Witness ==
    /\ outcome = "raised"
    /\ Len(log) >= 4
    /\ LET i == Len(log) - 2
       IN /\ FirstAttempt(i) /\ log[i][4] = "unauthorized" /\ log[i][2] > 0
          /\ log[i + 1][1] = "reauth"
          /\ IsReq(log[i + 2]) /\ log[i + 2][4] = "unauthorized"
    /\ Len(all_results) > 0

\* C4 (empty-page truncation): a page after the first that holds zero records
\* while fewer than total_count records are accumulated ends the call: it is
\* the last request, the warning is logged and exactly the records accumulated
\* before it are returned.
C4_EmptyPageTruncates ==
    \A i \in 1..Len(log) :
        ( /\ IsReq(log[i]) /\ log[i][4] = "ok" /\ log[i][5] = 0
          /\ \E j \in 1..(i - 1) : IsReq(log[j]) /\ log[j][4] = "ok"
          /\ Len(Collected(i - 1)) < Total ) =>
            /\ i = Len(log)
            /\ outcome = "returned"
            /\ warned
            /\ result = Some(Collected(i - 1))

\* the scaled case: total 5, limit 2, the page at offset 2 is empty: 2 records
\* after 2 requests
C4_Witness ==
    /\ outcome = "returned" /\ warned
    /\ Total = 5 /\ limit = 2
    /\ ReqOffsets = <<0, 2>>
    /\ log[2][4] = "ok" /\ log[2][5] = 0
    /\ Len(result[1]) = 2

\* C5 (termination): whatever the service answers, the call ends (returns or
\* raises), and it never sends more than 2 * (total_count + 1) page requests
\* (total_count counted as 0 while no page has arrived).
C5_Terminates ==
    /\ <>(pc = "done")
    /\ [](NumRequests(log) <=
            2 * ((IF total_count = None THEN 0 ELSE Total) + 1))

\* the bound is reached: every page needed a retry, the first page was empty
\* and every later page held one record
C5_Witness ==
    /\ pc = "done"
    /\ total_count # None
    /\ Total = MaxTotal
    /\ NumRequests(log) = 2 * (Total + 1)

\* --------------------------------------------------- reading a batch
\* the record passes the validity rule: identifier present and not empty,
\* date present and parseable, amount present
Valid(txn) == ~TransformRaises(txn) /\ _transform_transaction(txn) # None

\* identifier absent or empty, date absent, or amount absent
MissingField(txn) ==
    \/ ~TruthyStr(Get(txn, "id"))
    \/ Get(txn, "date") = None
    \/ Get(txn, "amount") = None

\* the table after the valid records among the first k of b were upserted one
\* by one, every column taking the incoming value
RECURSIVE Expected(_, _, _)
Expected(tbl, b, k) ==
    IF k = 0
    THEN tbl
    ELSE LET before == Expected(tbl, b, k - 1)
         IN IF Valid(b[k])
            THEN LET p == _transform_transaction(b[k])[1]
                     others == SelectSeq(before,
                                 LAMBDA r : r.transaction_id # p.transaction_id)
                 IN IF Len(others) = Len(before)
                    THEN Append(before, p)
                    ELSE [i \in 1..Len(before) |->
                            IF before[i].transaction_id = p.transaction_id
                            THEN p ELSE before[i]]
            ELSE before

\* positions of the records of b that carry identifier id (Some(...))
Occurrences(b, id) == {i \in 1..Len(b) : Get(b[i], "id") = id}
ValidOccurrences(b, id) == {i \in Occurrences(b, id) : Valid(b[i])}
LastOf(S) == CHOOSE i \in S : \A j \in S : j <= i

BatchIds(b) == {Get(b[i], "id") : i \in 1..Len(b)} \ {None, Some("")}

RowsWith(tbl, id) == SelectSeq(tbl, LAMBDA r : r.transaction_id = id)

\* C6 (overwrite on conflict): after upsert_transactions has committed a
\* record whose identifier already had a row, every column of that row holds
\* the incoming value (category_group, account_owner and raw_json included).
C6_OverwriteOnConflict ==
    upc = "returned" =>
        \A id \in BatchIds(batch) :
            (ValidOccurrences(batch, id) # {} /\ RowsWith(storeBefore, id) # <<>>) =>
                LET p == _transform_transaction(
                            batch[LastOf(ValidOccurrences(batch, id))])[1]
                IN \A i \in 1..Len(store) :
                      store[i].transaction_id = id =>
                         \A c \in Columns : store[i][c] = p[c]

\* C7 as claimed: after a call that returned, for an identifier that occurs
\* several times in the batch and was written by it (and that only
\* upsert_transactions ever wrote), the one row holds the values of its last
\* occurrence in the batch.
C7_LastOccurrenceWins ==
    upc = "returned" =>
        \A id \in BatchIds(batch) :
            ( /\ Cardinality(Occurrences(batch, id)) >= 2
              /\ ValidOccurrences(batch, id) # {}
              /\ id[1] \notin foreign ) =>
                LET last == batch[LastOf(Occurrences(batch, id))]
                IN /\ Valid(last)
                   /\ RowsWith(store, id) = <<_transform_transaction(last)[1]>>

\* C7 as amended: the table never holds two rows with one identifier; after a
\* call that returned, an identifier that occurs several times in the batch
\* (and that only upsert_transactions ever wrote) has the values of its last
\* occurrence that passes the validity rule, and keeps its former row, if any,
\* when no occurrence passes.
C7_OneRowPerId ==
    /\ \A i, j \in 1..Len(store) :
          store[i].transaction_id = store[j].transaction_id => i = j
    /\ \A i, j \in 1..Len(work) :
          work[i].transaction_id = work[j].transaction_id => i = j
    /\ upc = "returned" =>
          \A id \in BatchIds(batch) :
              (Cardinality(Occurrences(batch, id)) >= 2 /\ id[1] \notin foreign) =>
                  IF ValidOccurrences(batch, id) = {}
                  THEN RowsWith(store, id) = RowsWith(storeBefore, id)
                  ELSE RowsWith(store, id) =
                         <<_transform_transaction(
                              batch[LastOf(ValidOccurrences(batch, id))])[1]>>

\* the identifier had a row, the batch held it twice with different values,
\* the second one is in the table
C7_Witness ==
    /\ upc = "returned"
    /\ "test_txn_001" \notin foreign
    /\ batch = <<TxnA1, TxnA2>>
    /\ RowsWith(storeBefore, Some("test_txn_001")) # <<>>
    /\ RowsWith(store, Some("test_txn_001")) = <<_transform_transaction(TxnA2)[1]>>

\* C8 (batch atomicity): nothing of a batch is visible while the call runs;
\* when the call raises (a storage error or an exception of the
\* transformation, after any number of executed rows) the table is what it
\* was before the call and the caller gets the exception; when it returns,
\* the table is the former one with all valid records of the batch upserted.
C8_BatchAtomic ==
    /\ upc = "rows" => store = storeBefore
    /\ upc = "raised" =>
          /\ store = storeBefore
          /\ uraised # None
    /\ upc = "returned" =>
          /\ uraised = None
          /\ \A id \in BatchIds(batch) \cup
                       {storeBefore[i].transaction_id : i \in 1..Len(storeBefore)} :
                Len(RowsWith(store, id)) = Len(RowsWith(Expected(storeBefore, batch, Len(batch)), id))
          /\ \A i \in 1..Len(store) :
                \A c \in UPSERT_SET \cup {"transaction_id"} :
                   store[i][c] = Expected(storeBefore, batch, Len(batch))[i][c]

\* a storage error after a row of the batch was executed and changed the
\* working content: rolled back
C8_Witness ==
    /\ upc = "raised"
    /\ uraised = Some("StorageError")
    /\ rows_upserted >= 1
    /\ store = storeBefore
    /\ Expected(storeBefore, batch, idx - 1) # storeBefore

\* C9 (rejection filter): a batch holding a record without identifier, date
\* or amount is still processed to the end (storage errors aside): the call
\* returns, every record that fails the validity rule is counted as skipped
\* and leaves no row, and the valid records are written.
C9_RejectionFilter ==
    ( /\ upc \in {"returned", "raised"}
      /\ uraised # Some("StorageError")
      /\ \E i \in 1..Len(batch) : MissingField(batch[i]) ) =>
        /\ upc = "returned"
        /\ rows_skipped = Cardinality({i \in 1..Len(batch) : ~Valid(batch[i])})
        /\ rows_upserted = Cardinality({i \in 1..Len(batch) : Valid(batch[i])})
        /\ \A id \in BatchIds(batch) :
              ValidOccurrences(batch, id) # {} => RowsWith(store, id) # <<>>

\* C10 (unparseable date): a batch holding valid records and a record whose
\* date is present but not a YYYY-MM-DD date is processed to the end (storage
\* errors aside): the call returns, the record is counted as skipped and the
\* valid records are committed.
C10_BadDateIsSkipped ==
    ( /\ upc \in {"returned", "raised"}
      /\ uraised # Some("StorageError")
      /\ \E i \in 1..Len(batch) : Valid(batch[i])
      /\ \E i \in 1..Len(batch) :
            ~MissingField(batch[i]) /\ ParseDateRaises(Get(batch[i], "date")) ) =>
        /\ upc = "returned"
        /\ uraised = None
        /\ rows_skipped = Cardinality({i \in 1..Len(batch) : ~Valid(batch[i])})
        /\ \A id \in BatchIds(batch) :
              ValidOccurrences(batch, id) # {} => RowsWith(store, id) # <<>>

\* ------------------------------- the fetch, with the reported totals kept
\* the responses that carry the total t
ResponsesWith(t) == {r \in PageResponses(limit) : r.totalCount = t}

\* a page request answered by a response with totalCount t
AnsweredPage ==
    \E t \in 0..MaxTotal :
        /\ FetchPageFrom(ResponsesWith(t), {}, {})
        /\ reported' = Some(t)

\* the failures of this specification: one error that is classified as
\* unauthorized and one that is not
SomeErrors ==
    { [kind |-> "unauthorized", msg |-> Msg401],
      [kind |-> "network", msg |-> MsgTimeout] }

\* a page request that fails
FailedPage ==
    /\ FetchPageFrom({}, {}, SomeErrors)
    /\ UNCHANGED reported

AnsweredRetry ==
    \E t \in 0..MaxTotal :
        /\ RetryPageFrom(ResponsesWith(t), {}, {})
        /\ reported' = Some(t)

FailedRetry ==
    /\ RetryPageFrom({}, {}, SomeErrors)
    /\ UNCHANGED reported

NextResponses ==
    \/ Initialize /\ UNCHANGED <<normVars, mainVars, respVars, sessVars, moreVars>>
    \/ FetchStart /\ UNCHANGED <<normVars, mainVars, respVars, sessVars, moreVars>>
    \/ AnsweredPage /\ UNCHANGED <<normVars, mainVars, sessVars, moreVars>>
    \/ FailedPage /\ UNCHANGED <<normVars, mainVars, sessVars, moreVars>>
    \/ Reauth /\ UNCHANGED <<normVars, mainVars, respVars, sessVars, moreVars>>
    \/ AnsweredRetry /\ UNCHANGED <<normVars, mainVars, sessVars, moreVars>>
    \/ FailedRetry /\ UNCHANGED <<normVars, mainVars, sessVars, moreVars>>

SpecResponses == Init /\ [][NextResponses]_vars

\* ------------------------------------ the session cache, one step at a time
\* MonarchMoney.login as the code relies on it: with use_saved_session (the
\* default) and the file present the session is loaded from the file and no
\* request is sent; otherwise the credentials are sent and, with
\* save_session, the new session is written to the file.
MaxInvalidations == 1

\* run r takes the new field values of `changes`
Update(r, changes) == run' = [run EXCEPT ![r] = changes @@ @]

\* a path test that finds a file whatever is there
ExistsAlways(file) == TRUE

\* SESSION_FILE.exists(), os.path.exists
Exists(file) == file # None

\* an unlink that leaves the file in place
UnlinkKeeps(file) == file

\* the file after SESSION_FILE.unlink()
Unlink(file) == None

\* initialize: `SESSION_DIR.mkdir(exist_ok=True); self.client = MonarchMoney()`
SessNew(r) ==
    /\ run[r].pc = "new"
    /\ Update(r, [pc |-> "first_exists", client |-> Some(0)])
    /\ UNCHANGED <<clientVars, fetchVars, storeVars>>

\* initialize, `self.client.login(...)`: the test for a saved session
SessFirstExists(r) ==
    /\ run[r].pc = "first_exists"
    /\ Update(r, [pc |-> IF Exists(sessionFile) THEN "first_load"
                                                ELSE "first_login"])
    /\ UNCHANGED <<clientVars, fetchVars, storeVars>>

\* the saved session is loaded; a file that is gone or unreadable raises,
\* which `except Exception` of initialize catches
SessFirstLoad(r) ==
    /\ run[r].pc = "first_load"
    /\ IF sessionFile = None \/ sessionFile = Some(0)
       THEN Update(r, [pc |-> "fresh_exists", firstFailed |-> TRUE])
       ELSE Update(r, [pc |-> "ready", client |-> sessionFile,
                       inInit |-> FALSE, origin |-> "cache"])
    /\ UNCHANGED <<clientVars, fetchVars, storeVars>>

\* no saved session: the credentials are sent
SessFirstLogin(r) ==
    /\ run[r].pc = "first_login"
    /\ \/ /\ Update(r, [pc |-> "first_save", client |-> Some(nextSession),
                         origin |-> "login"])
          /\ nextSession' = nextSession + 1
       \/ /\ Update(r, [pc |-> "fresh_exists", firstFailed |-> TRUE])
          /\ UNCHANGED nextSession
    /\ UNCHANGED <<client, sessionFile, fetchVars, storeVars>>

\* the session of the first login is saved, initialize returns
SessFirstSave(r) ==
    /\ run[r].pc = "first_save"
    /\ sessionFile' = run[r].client
    /\ Update(r, [pc |-> "ready", inInit |-> FALSE])
    /\ UNCHANGED <<client, nextSession, fetchVars, storeVars>>

\* _create_fresh_client, `if SESSION_FILE.exists():`
SessFreshExists(r) ==
    /\ run[r].pc = "fresh_exists"
    /\ Update(r, [pc |-> IF Exists(sessionFile) THEN "fresh_unlink"
                                                ELSE "fresh_login"])
    /\ UNCHANGED <<clientVars, fetchVars, storeVars>>

\* _create_fresh_client, `SESSION_FILE.unlink()`: FileNotFoundError when
\* the file is not there any more
SessFreshUnlink(r) ==
    /\ run[r].pc = "fresh_unlink"
    /\ IF sessionFile = None
       THEN /\ Update(r, [pc |-> "raised", err |-> Some("FileNotFoundError")])
            /\ UNCHANGED sessionFile
       ELSE /\ Update(r, [pc |-> "fresh_login"])
            /\ sessionFile' = Unlink(sessionFile)
    /\ UNCHANGED <<client, nextSession, fetchVars, storeVars>>

\* _create_fresh_client, `await mm.login(..., use_saved_session=False, ...)`:
\* the credentials are sent; a refusal leaves the run
SessFreshLogin(r) ==
    /\ run[r].pc = "fresh_login"
    /\ LET seen == [atLogin |-> run[r].atLogin \cup {Exists(sessionFile)},
                    fulls |-> IF run[r].inInit THEN run[r].fulls + 1
                                               ELSE run[r].fulls]
       IN \/ /\ Update(r, [pc |-> "fresh_save", mm |-> Some(nextSession)]
                             @@ seen)
             /\ nextSession' = nextSession + 1
          \/ /\ Update(r, [pc |-> "raised", err |-> Some("login")] @@ seen)
             /\ UNCHANGED nextSession
    /\ UNCHANGED <<client, sessionFile, fetchVars, storeVars>>

\* the new session is saved, `return mm` and `self.client = ...`
SessFreshSave(r) ==
    /\ run[r].pc = "fresh_save"
    /\ sessionFile' = run[r].mm
    /\ Update(r, [pc |-> "ready", client |-> run[r].mm, mm |-> None,
                   inInit |-> FALSE, origin |-> "login"])
    /\ UNCHANGED <<client, nextSession, fetchVars, storeVars>>

\* _fetch_with_retry: a page request of the run is answered 401
SessInvalidate(r) ==
    /\ run[r].pc = "ready"
    /\ run[r].invalidations < MaxInvalidations
    /\ Update(r, [pc |-> "fresh_exists",
                   invalidations |-> run[r].invalidations + 1])
    /\ UNCHANGED <<clientVars, fetchVars, storeVars>>

\* the run ends
SessExit(r) ==
    /\ run[r].pc = "ready"
    /\ Update(r, [pc |-> "exited"])
    /\ UNCHANGED <<clientVars, fetchVars, storeVars>>

Finished(r) == run[r].pc \in {"exited", "raised"}

\* run "a" is started before run "b"
Earlier(q, r) == q = "a" /\ r = "b"

\* every run started before r has ended
InTurn(r) == \A q \in Runs : Earlier(q, r) => Finished(q)

\* the runs one after the other, each finding the cache the runs before left
NextSession ==
    \/ \E r \in Runs : InTurn(r) /\ SessNew(r)
          /\ UNCHANGED <<normVars, mainVars, respVars, moreVars>>
    \/ \E r \in Runs : InTurn(r) /\ SessFirstExists(r)
          /\ UNCHANGED <<normVars, mainVars, respVars, moreVars>>
    \/ \E r \in Runs : InTurn(r) /\ SessFirstLoad(r)
          /\ UNCHANGED <<normVars, mainVars, respVars, moreVars>>
    \/ \E r \in Runs : InTurn(r) /\ SessFirstLogin(r)
          /\ UNCHANGED <<normVars, mainVars, respVars, moreVars>>
    \/ \E r \in Runs : InTurn(r) /\ SessFirstSave(r)
          /\ UNCHANGED <<normVars, mainVars, respVars, moreVars>>
    \/ \E r \in Runs : InTurn(r) /\ SessFreshExists(r)
          /\ UNCHANGED <<normVars, mainVars, respVars, moreVars>>
    \/ \E r \in Runs : InTurn(r) /\ SessFreshUnlink(r)
          /\ UNCHANGED <<normVars, mainVars, respVars, moreVars>>
    \/ \E r \in Runs : InTurn(r) /\ SessFreshLogin(r)
          /\ UNCHANGED <<normVars, mainVars, respVars, moreVars>>
    \/ \E r \in Runs : InTurn(r) /\ SessFreshSave(r)
          /\ UNCHANGED <<normVars, mainVars, respVars, moreVars>>
    \/ \E r \in Runs : InTurn(r) /\ SessInvalidate(r)
          /\ UNCHANGED <<normVars, mainVars, respVars, moreVars>>
    \/ \E r \in Runs : InTurn(r) /\ SessExit(r)
          /\ UNCHANGED <<normVars, mainVars, respVars, moreVars>>

SpecSession == InitSession /\ [][NextSession]_vars

\* the runs at the same time: their steps interleave
NextConcurrent ==
    \/ \E r \in Runs : SessNew(r)
          /\ UNCHANGED <<normVars, mainVars, respVars, moreVars>>
    \/ \E r \in Runs : SessFirstExists(r)
          /\ UNCHANGED <<normVars, mainVars, respVars, moreVars>>
    \/ \E r \in Runs : SessFirstLoad(r)
          /\ UNCHANGED <<normVars, mainVars, respVars, moreVars>>
    \/ \E r \in Runs : SessFirstLogin(r)
          /\ UNCHANGED <<normVars, mainVars, respVars, moreVars>>
    \/ \E r \in Runs : SessFirstSave(r)
          /\ UNCHANGED <<normVars, mainVars, respVars, moreVars>>
    \/ \E r \in Runs : SessFreshExists(r)
          /\ UNCHANGED <<normVars, mainVars, respVars, moreVars>>
    \/ \E r \in Runs : SessFreshUnlink(r)
          /\ UNCHANGED <<normVars, mainVars, respVars, moreVars>>
    \/ \E r \in Runs : SessFreshLogin(r)
          /\ UNCHANGED <<normVars, mainVars, respVars, moreVars>>
    \/ \E r \in Runs : SessFreshSave(r)
          /\ UNCHANGED <<normVars, mainVars, respVars, moreVars>>
    \/ \E r \in Runs : SessInvalidate(r)
          /\ UNCHANGED <<normVars, mainVars, respVars, moreVars>>
    \/ \E r \in Runs : SessExit(r)
          /\ UNCHANGED <<normVars, mainVars, respVars, moreVars>>

SpecConcurrent == InitSession /\ [][NextConcurrent]_vars

\* ---------------------------------------------------------------- main
\* a test that leaves out the last value
PyAllButLast(values) == \A i \in 1..(Len(values) - 1) : TruthyStr(values[i])

\* Python's all([...]) on values that are None or strings
PyAll(values) == \A i \in 1..Len(values) : TruthyStr(values[i])

\* os.getenv of a required variable: unset, empty or set
EnvValues == {None, Some(""), Some("set")}

Configs ==
    [db_url : EnvValues, email : EnvValues, password : EnvValues,
     mfa_secret : EnvValues]

\* the date range of a run started on 2 March 2024 with DAYS_BACK unset
start_date == [year |-> 2023, month |-> 12, day |-> 3]
end_date == [year |-> 2024, month |-> 3, day |-> 2]

\* d1 <= d2 on dates
DateLeq(d1, d2) ==
    \/ d1.year < d2.year
    \/ d1.year = d2.year /\ d1.month < d2.month
    \/ d1.year = d2.year /\ d1.month = d2.month /\ d1.day <= d2.day

\* the rows that TRANSACTIONS_QUERY selects
ExportRows(tbl) ==
    SelectSeq(tbl, LAMBDA r :
        /\ r.txn_date # None
        /\ DateLeq(start_date, r.txn_date[1])
        /\ DateLeq(r.txn_date[1], end_date)
        /\ r.merchant_name # Some("Test Merchant"))

\* The remote account of the run: ScenTotal transactions, numbered from 1,
\* served in pages of at most `limit` from `offset` on; the first request at
\* the offset of the second page is answered 401.
ScenTotal == 237

ScenFails ==
    /\ offset = DEFAULT_PAGE_LIMIT
    /\ ~\E i \in 1..Len(log) : IsReq(log[i]) /\ log[i][2] = offset

ScenResponses ==
    IF ScenFails
    THEN {}
    ELSE {[totalCount |-> ScenTotal,
           n |-> Max(0, Min(limit, ScenTotal - offset))]}

ScenErrors ==
    IF ScenFails THEN {[kind |-> "unauthorized", msg |-> Msg401]} ELSE {}

\* transaction number g of the account, as the service serves it
ScenTxn(g) ==
    IF g = noDateAt
    THEN [id |-> Some(ToString(g)), amount |-> Some(g)]
    ELSE [id |-> Some(ToString(g)), date |-> Some(DateJan5), amount |-> Some(g)]

\* the dicts behind the records <<request number, index>> of a fetched list
TxnsOf(records) ==
    LET reqs == SelectSeq(log, IsReq)
    IN [k \in 1..Len(records) |->
          ScenTxn(reqs[records[k][1]][2] + records[k][2])]

\* main, from the reading of the environment to the validation
MainConfig ==
    /\ mpc = "config"
    /\ mpc' = IF PyAll(<<config.db_url, config.email, config.password,
                         config.mfa_secret>>)
              THEN "initialize"
              ELSE "raised"
    /\ UNCHANGED <<config, exported, noDateAt, clientVars, fetchVars,
                   storeVars>>

\* `await client.initialize()`
MainInitialize ==
    /\ mpc = "initialize"
    /\ Initialize
    /\ mpc' = IF outcome' = "raised" THEN "raised" ELSE "fetch"
    /\ UNCHANGED <<config, exported, noDateAt>>

\* `await client.fetch_transactions(start_date, end_date)`: limit takes its
\* default
MainFetchStart ==
    /\ mpc = "fetch"
    /\ pc = "start"
    /\ FetchStartWith({DEFAULT_PAGE_LIMIT})
    /\ UNCHANGED mainVars

MainFetchPage ==
    /\ mpc = "fetch"
    /\ FetchPageFrom(ScenResponses, {}, ScenErrors)
    /\ UNCHANGED mainVars

MainReauth ==
    /\ mpc = "fetch"
    /\ Reauth
    /\ UNCHANGED mainVars

MainRetryPage ==
    /\ mpc = "fetch"
    /\ RetryPageFrom(ScenResponses, {}, ScenErrors)
    /\ UNCHANGED mainVars

\* fetch_transactions is left: by an exception, which main logs and
\* re-raises, or by its return, which is followed by
\* `repo.upsert_transactions(transactions)`
MainFetched ==
    /\ mpc = "fetch"
    /\ pc = "done"
    /\ IF outcome = "raised"
       THEN /\ mpc' = "raised"
            /\ UNCHANGED storeVars
       ELSE /\ mpc' = "upsert"
            /\ UpsertBeginWith(TxnsOf(result[1]))
    /\ UNCHANGED <<config, exported, noDateAt, clientVars, fetchVars>>

MainUpsertRow ==
    /\ mpc = "upsert"
    /\ UpsertRow
    /\ UNCHANGED mainVars

MainUpsertCommit ==
    /\ mpc = "upsert"
    /\ UpsertCommit
    /\ UNCHANGED mainVars

\* a try block that goes on to the export whatever the upsert did
AfterUpsertAlwaysExport(position) == "export"

\* where main goes on when upsert_transactions is left: to the export after
\* its return, to the except branch after an exception
AfterUpsert(position) == IF position = "returned" THEN "export" ELSE "raised"

\* upsert_transactions is left: by an exception, or by its return
MainUpserted ==
    /\ mpc = "upsert"
    /\ UpsertFinish
    /\ mpc' = AfterUpsert(upc)
    /\ UNCHANGED <<config, exported, noDateAt>>

\* `exporter.export(output_file, start_date, end_date)`
MainExport ==
    /\ mpc = "export"
    /\ \/ /\ exported' = Some(Len(ExportRows(store)))
          /\ mpc' = "done"
       \/ \* a query or the writing of the workbook raises
          /\ mpc' = "raised"
          /\ UNCHANGED exported
    /\ UNCHANGED <<config, noDateAt, clientVars, fetchVars, storeVars>>

\* the places of the dateless transaction that are tried: the first and the
\* last record of every page
NoDatePlaces ==
    { g \in 1..ScenTotal :
        g % DEFAULT_PAGE_LIMIT \in {0, 1} \/ g = ScenTotal }

InitMain ==
    /\ InitClient
    /\ InitStore
    /\ InitNoTransform
    /\ config \in Configs
    /\ mpc = "config"
    /\ exported = None
    /\ noDateAt \in NoDatePlaces
    /\ InitNoResponse
    /\ InitNoRuns
    /\ InitNoMore

NextMain ==
    \/ MainConfig /\ UNCHANGED <<normVars, respVars, sessVars, moreVars>>
    \/ MainInitialize /\ UNCHANGED <<normVars, respVars, sessVars, moreVars>>
    \/ MainFetchStart /\ UNCHANGED <<normVars, respVars, sessVars, moreVars>>
    \/ MainFetchPage /\ UNCHANGED <<normVars, respVars, sessVars, moreVars>>
    \/ MainReauth /\ UNCHANGED <<normVars, respVars, sessVars, moreVars>>
    \/ MainRetryPage /\ UNCHANGED <<normVars, respVars, sessVars, moreVars>>
    \/ MainFetched /\ UNCHANGED <<normVars, respVars, sessVars, moreVars>>
    \/ MainUpsertRow /\ UNCHANGED <<normVars, respVars, sessVars, moreVars>>
    \/ MainUpsertCommit /\ UNCHANGED <<normVars, respVars, sessVars, moreVars>>
    \/ MainUpserted /\ UNCHANGED <<normVars, respVars, sessVars, moreVars>>
    \/ MainExport /\ UNCHANGED <<normVars, respVars, sessVars, moreVars>>

SpecMain == InitMain /\ [][NextMain]_vars

\* main is not suspended for ever: an awaited call ends, and an exception
\* that was raised reaches the except branch
FairSpecMain == InitMain /\ [][NextMain]_vars /\ WF_vars(NextMain)

\* ------------------------------------------------- claims on the normalizer
\* what the sub-object sub of record t holds under key, read as the claim says
Nested(t, sub, key) ==
    IF sub \in DOMAIN t /\ t[sub] # None /\ key \in DOMAIN t[sub][1]
    THEN t[sub][1][key]
    ELSE None

\* C11: for a record that passes the validity rule, _transform_transaction
\* raises nothing and returns a row whose merchant_name, category_name,
\* account_id and account_name are null when the sub-object is missing, null
\* or lacks the key, and equal the nested value otherwise
C11_NullSafeExtraction ==
    (/\ transformed # <<"pending">>
     /\ ~MissingField(arg_txn)
     /\ MatchesFormat(arg_txn.date[1])) =>
        /\ transformed[1] = "returned"
        /\ transformed[2] # None
        /\ LET row == transformed[2][1]
           IN /\ row.merchant_name = Nested(arg_txn, "merchant", "name")
              /\ row.category_name = Nested(arg_txn, "category", "name")
              /\ row.account_id = Nested(arg_txn, "account", "id")
              /\ row.account_name = Nested(arg_txn, "account", "displayName")

\* a record with a null merchant, a category without name and an account
\* that has an id but no displayName was transformed
C11_Witness ==
    /\ transformed[1] = "returned"
    /\ "merchant" \in DOMAIN arg_txn /\ arg_txn.merchant = None
    /\ "category" \in DOMAIN arg_txn /\ arg_txn.category = Some(<<>>)
    /\ "account" \in DOMAIN arg_txn
    /\ Nested(arg_txn, "account", "id") = Some("acct_1")
    /\ Nested(arg_txn, "account", "displayName") = None
    /\ transformed[2][1].account_id = Some("acct_1")

\* C15: in the row of a record that passes the validity rule, is_transfer is
\* false (never null) unless isTransfer or is_transfer is true in the record,
\* and is_pending is null when the record has no pending key and the
\* record's value otherwise
C15_FlagDefaults ==
    (/\ transformed # <<"pending">>
     /\ ~MissingField(arg_txn)
     /\ MatchesFormat(arg_txn.date[1])) =>
        /\ transformed[1] = "returned"
        /\ transformed[2] # None
        /\ LET row == transformed[2][1]
               flagged == \/ Get(arg_txn, "isTransfer") = Some(TRUE)
                          \/ Get(arg_txn, "is_transfer") = Some(TRUE)
           IN /\ row.is_transfer = Some(flagged)
              /\ row.is_pending = IF "pending" \in DOMAIN arg_txn
                                  THEN arg_txn.pending
                                  ELSE None

\* C19: once the first page has set total_count, no step changes it; after
\* every later successful page response, whatever totalCount it carries, the
\* call goes on to another request exactly when the page was not empty and
\* the accumulated count is below the first page's total, and the list (and
\* the returned list) is the accumulated one extended by the page's records
C19_BoundFixedAtFirstPage ==
    [][ total_count # None =>
          /\ total_count' = total_count
          /\ (/\ log' # log
              /\ IsReq(log'[Len(log')])
              /\ log'[Len(log')][4] = "ok") =>
                LET n == log'[Len(log')][5]
                    acc == IF n > 0
                           THEN all_results \o PageRecords(NumRequests(log'), n)
                           ELSE all_results
                IN /\ all_results' = acc
                   /\ (pc' = "page") <=> (n > 0 /\ Len(acc) < total_count[1])
                   /\ (pc' # "page") => (pc' = "done" /\ result' = Some(acc))
      ]_vars

\* the first page reported 5, the second page reported 2 while 4 records
\* were accumulated, and the call goes on to a third request
C19_Witness ==
    /\ pc = "page"
    /\ NumRequests(log) = 2
    /\ total_count = Some(5)
    /\ reported = Some(2)
    /\ Len(all_results) = 4

\* C20: when the first request of the call (offset 0) is answered by a page
\* without records whose total count is above zero, the call has returned the
\* empty list and that request is its only one
C20_EmptyFirstPageStops ==
    (/\ Len(log) >= 1
     /\ IsReq(log[1]) /\ log[1][2] = 0 /\ log[1][4] = "ok" /\ log[1][5] = 0
     /\ total_count # None /\ total_count[1] > 0) =>
        /\ NumRequests(log) = 1
        /\ pc = "done"
        /\ outcome = "returned"
        /\ result = Some(<<>>)

\* ------------------------------------------------------- claims on main
NumReauths(l) == Cardinality({i \in 1..Len(l) : l[i][1] = "reauth"})

\* C12: against an account of 237 transactions served in pages of 100, 100
\* and 37, the first request at offset 100 being answered 401 and one
\* transaction having no date, a run whose upsert returns has sent 4 page
\* requests, re-authenticated once, fetched all 237 records, upserted 236
\* rows and skipped 1
C12_EndToEnd ==
    (mpc = "upsert" /\ upc = "returned") =>
        /\ NumRequests(log) = 4
        /\ NumReauths(log) = 1
        /\ Len(result[1]) = ScenTotal
        /\ rows_upserted = ScenTotal - 1
        /\ rows_skipped = 1
        /\ Len(store) = ScenTotal - 1

\* the scenario happened: page sizes 100, 100 and 37, the second request
\* refused, the dateless record in the middle page, and the upsert returned
C12_Witness ==
    /\ mpc = "upsert" /\ upc = "returned"
    /\ ScenTotal = 2 * DEFAULT_PAGE_LIMIT + 37
    /\ Len(log) = 5
    /\ log[1][4] = "ok" /\ log[1][5] = DEFAULT_PAGE_LIMIT
    /\ log[2][2] = DEFAULT_PAGE_LIMIT /\ log[2][4] = "unauthorized"
    /\ log[3][1] = "reauth"
    /\ log[4][2] = DEFAULT_PAGE_LIMIT /\ log[4][4] = "ok"
    /\ log[4][5] = DEFAULT_PAGE_LIMIT
    /\ log[5][2] = 2 * DEFAULT_PAGE_LIMIT /\ log[5][5] = 37
    /\ noDateAt = DEFAULT_PAGE_LIMIT + 1
    /\ rows_skipped = 1

\* one of the four required settings is unset or empty
ConfigIncomplete ==
    \E k \in {"db_url", "email", "password", "mfa_secret"} :
        config[k] = None \/ config[k] = Some("")

\* C14: with the storage connection string, the account identity, the secret
\* or the second-factor secret unset or empty, main raises at the validation:
\* initialize has not run (no login), no page was requested, no session was
\* issued and no storage call was started
C14_ConfigFailsFast ==
    (mpc # "none" /\ ConfigIncomplete) =>
        /\ mpc \in {"config", "raised"}
        /\ pc = "init" /\ client = None /\ nextSession = 2
        /\ log = <<>>
        /\ upc = "idle" /\ store = <<>> /\ work = <<>>
        /\ exported = None

\* main has raised for an empty second-factor secret, all else being set
C14_Witness ==
    /\ mpc = "raised"
    /\ config = [db_url |-> Some("set"), email |-> Some("set"),
                 password |-> Some("set"), mfa_secret |-> Some("")]
    /\ pc = "init"

\* ---------------------------------------------- claims on the session cache
InFresh(r) ==
    run[r].pc \in {"fresh_exists", "fresh_unlink", "fresh_login", "fresh_save"}

\* C16: inside initialize, _create_fresh_client runs only after the first
\* login attempt raised, and its full login is issued at most once; when
\* initialize has returned, the client holds a session that was loaded from
\* the cache or established by a login; initialize raises only when the full
\* login was refused, never because the cache is missing or unreadable
C16_SessionAcquisition ==
    \A r \in Runs :
        /\ (run[r].inInit /\ InFresh(r)) => run[r].firstFailed
        /\ run[r].fulls >= 1 => run[r].firstFailed
        /\ run[r].fulls <= 1
        /\ ~run[r].inInit =>
              /\ run[r].client \notin {None, Some(0)}
              /\ run[r].origin \in {"cache", "login"}
        /\ (run[r].pc = "ready" /\ run[r].origin = "cache") =>
              run[r].client = sessionFile
        /\ (run[r].inInit /\ run[r].pc = "raised") =>
              (run[r].err = Some("login") /\ run[r].fulls = 1)

\* initialize has returned after a failed first attempt and one full login
C16_Witness ==
    /\ run["a"].pc = "ready"
    /\ run["a"].firstFailed /\ run["a"].fulls = 1
    /\ run["a"].invalidations = 0
    /\ run["a"].origin = "login"
    /\ run["a"].client = Some(2)

\* C17: whenever _create_fresh_client issues its login the cache file is
\* absent; when it has returned the cache holds the session it established;
\* when its login was refused no cache file remains
C17_StaleCacheRemovedFirst ==
    \A r \in Runs :
        /\ run[r].atLogin \subseteq {FALSE}
        /\ (/\ run[r].pc = "ready"
            /\ run[r].firstFailed \/ run[r].invalidations > 0) =>
              (sessionFile = run[r].client /\ run[r].origin = "login")
        /\ (/\ run[r].pc = "raised"
            /\ run[r].err = Some("login")
            /\ \A q \in Runs : Earlier(r, q) => run[q].pc = "new") =>
              sessionFile = None

\* a run that held session 2 was answered 401, removed the cache and saw
\* its login refused
C17_Witness ==
    /\ run["a"].pc = "raised"
    /\ run["a"].err = Some("login")
    /\ run["a"].invalidations = 1
    /\ run["a"].client = Some(2)
    /\ run["a"].atLogin = {FALSE}
    /\ sessionFile = None

\* C18: with both runs active at the same time, no run ends by an exception
\* other than a refusal of the service
C18_ConcurrentRunsDoNotFail ==
    \A r \in Runs : run[r].err \in {None, Some("login")}

\* ------------------------------------------- further claims on the fetch
\* C13: a page request that failed for another reason than an unauthorized
\* response of the service (network, malformed response, rate limiting),
\* whatever its message, is the last event of the call: no re-authentication
\* and no request follows it, and the call has raised that very error
C13_OnlyUnauthorizedReauthenticates ==
    \A i \in 1..Len(log) :
        (IsReq(log[i]) /\ log[i][4] \in {"network", "malformed", "ratelimit"}) =>
            /\ i = Len(log)
            /\ pc = "done"
            /\ outcome = "raised"
            /\ raised[1].kind = log[i][4]

\* ------------------------- the page requests, from the send to the answer
\* a request that is never taken out of the set of requests in flight
AnsweredStays(inFlight, request) == inFlight

\* `await fetch_func(...)` resumes: the request it waited for is over
Answered(inFlight, request) == inFlight \ {request}

\* fetch_page calls self.client.get_transactions(...): the request leaves on
\* the session self.client holds now, and the coroutine is suspended
FlightSend ==
    /\ pc \in {"page", "retry"}
    /\ ~awaiting
    /\ flight' = flight \cup {<<client[1], offset>>}
    /\ awaiting' = TRUE
    /\ UNCHANGED <<clientVars, fetchVars, storeVars, connVars>>

\* the answer of the first request of a page arrives
FlightPage ==
    /\ awaiting
    /\ FetchPageFrom(PageResponses(limit), {}, SomeErrors)
    /\ flight' = Answered(flight, <<client[1], offset>>)
    /\ awaiting' = FALSE
    /\ UNCHANGED connVars

\* the answer of the retried request arrives
FlightRetry ==
    /\ awaiting
    /\ RetryPageFrom(PageResponses(limit), {}, SomeErrors)
    /\ flight' = Answered(flight, <<client[1], offset>>)
    /\ awaiting' = FALSE
    /\ UNCHANGED connVars

NextFlight ==
    \/ Initialize /\ UNCHANGED <<normVars, mainVars, respVars, sessVars, moreVars>>
    \/ FetchStart /\ UNCHANGED <<normVars, mainVars, respVars, sessVars, moreVars>>
    \/ FlightSend /\ UNCHANGED <<normVars, mainVars, respVars, sessVars>>
    \/ FlightPage /\ UNCHANGED <<normVars, mainVars, respVars, sessVars>>
    \/ Reauth /\ UNCHANGED <<normVars, mainVars, respVars, sessVars, moreVars>>
    \/ FlightRetry /\ UNCHANGED <<normVars, mainVars, respVars, sessVars>>

SpecFlight == Init /\ [][NextFlight]_vars

\* log entry i is a re-authentication that established a session
IsReauthOk(i) == log[i][1] = "reauth" /\ log[i][4] = "ok"

\* C21 (session switch): every page request that follows a re-authentication
\* of the call, the retry first, is sent on the session established by the
\* latest re-authentication before it; a session whose request was followed
\* by a re-authentication carries no later request; and at every moment at
\* most one request is in flight, on the session the client holds.
C21_RequestsUseNewSession ==
    /\ \A i \in 1..Len(log) : \A j \in (i + 1)..Len(log) :
          /\ ( /\ IsReauthOk(i) /\ IsReq(log[j])
               /\ \A k \in (i + 1)..(j - 1) : IsReq(log[k]) )
             => log[j][3] = log[i][3]
          /\ (IsReq(log[i]) /\ IsReauthOk(i + 1) /\ IsReq(log[j]))
             => log[j][3] # log[i][3]
    /\ \A i \in 1..(Len(log) - 1) : IsReauthOk(i) => IsReq(log[i + 1])
    /\ Cardinality(flight) <= 1
    /\ \A f \in flight : awaiting /\ f = <<client[1], offset>>
    /\ \A i \in 1..Len(log) : \A f \in flight :
          (IsReq(log[i]) /\ i < Len(log) /\ IsReauthOk(i + 1)) => f[1] # log[i][3]

C21_Witness ==
    /\ Len(log) = 4
    /\ IsReq(log[1]) /\ log[1][4] = "unauthorized"
    /\ IsReauthOk(2)
    /\ IsReq(log[3]) /\ log[3][4] = "ok"
    /\ IsReq(log[4]) /\ log[4][4] = "ok"
    /\ log[4][2] > log[3][2]
    /\ flight = {<<log[2][3], offset>>}
    /\ flight # {<<log[1][3], offset>>}

\* ------------------------------------------------------- claims on main
\* the storage has been touched by the run
StorageTouched == upc # "idle" \/ store # <<>> \/ work # <<>> \/ batch # <<>>

\* C22 (pipeline order): in a run of main the storage is not touched before
\* fetch_transactions has returned (its last page request is answered); the
\* export starts, and has a result, only when the upsert call is over and
\* its batch is committed; when initialize or fetch_transactions raised, also
\* after pages were fetched, the store is as the run found it, nothing is
\* exported, no later stage runs, and the run ends in the except branch of
\* main, which re-raises.
C22_PipelineOrder ==
    /\ [](StorageTouched =>
            /\ pc = "done" /\ outcome = "returned"
            /\ mpc \in {"upsert", "export", "done", "raised"})
    /\ []((mpc \in {"export", "done"} \/ exported # None) =>
            /\ upc = "idle" /\ uraised = None
            /\ store = work
            /\ Len(store) = ScenTotal - 1)
    /\ [](outcome = "raised" =>
            /\ ~StorageTouched
            /\ exported = None
            /\ mpc \in {"fetch", "raised"})
    /\ (outcome = "raised") ~> (mpc = "raised" /\ exported = None /\ ~StorageTouched)

C22_Witness ==
    /\ mpc = "raised"
    /\ outcome = "raised"
    /\ raised = Some(LoginError)
    /\ \E i \in 1..Len(log) : IsReq(log[i]) /\ log[i][4] = "ok" /\ log[i][5] > 0
    /\ store = <<>>
    /\ exported = None

\* ------------------------------------------------ claims on the counters
\* C23 (accounting of a batch): when upsert_transactions returns normally for
\* a batch of n records, the returned count plus the number of skipped
\* records is n, and the returned count is the number of records of the batch
\* that have an identifier, a date and an amount, each occurrence counted,
\* also when several records carry one identifier.
C23_BatchAccounting ==
    upc = "returned" =>
        /\ rows_upserted + rows_skipped = Len(batch)
        /\ rows_upserted =
             Cardinality({i \in 1..Len(batch) : ~MissingField(batch[i])})

C23_Witness ==
    /\ upc = "returned"
    /\ batch = <<TxnA1, TxnA2>>
    /\ rows_upserted = 2
    /\ rows_skipped = 0
    /\ Len(RowsWith(store, Some("test_txn_001"))) = 1

\* --------------------- upsert_transactions on two connections at a time
\* The database as the code uses it: psycopg2 opens a transaction with the
\* first statement, at the server's default isolation level (read
\* committed).  A statement that inserts or updates the row of an identifier
\* waits while another open transaction holds an uncommitted write of that
\* identifier; the writes of a transaction become visible at its commit and
\* vanish at its rollback; two transactions that wait for each other are a
\* deadlock, which the server ends by aborting one of them.

\* a commit that publishes the connection's own rows as the whole table
CommitReplacing(committed, writes) == writes

\* conn.commit(): the statements of the transaction, in their order, on the
\* committed rows (no other transaction has changed the rows they touch)
RECURSIVE Commit(_, _)
Commit(committed, writes) ==
    IF writes = <<>>
    THEN committed
    ELSE Commit(InsertOnConflictUpdate(committed, Head(writes), UPSERT_SET),
                Tail(writes))

\* the batches of the two calls: the same three records (two valid ones and
\* one without identifier), in whatever order each run fetched them
SharedRecords == {TxnA1, TxnB1, TxnNoId}

Arrangements ==
    {b \in [1..Cardinality(SharedRecords) -> SharedRecords] :
        \A i, j \in DOMAIN b : b[i] = b[j] => i = j}

\* the content of the table before the two calls
EarlierStores == {<<>>, <<TestRow>>}

\* a call whose connection is open and whose loop has not started
NewConn(b) ==
    [pc |-> "rows", batch |-> b, idx |-> 0, writes |-> <<>>,
     rows_upserted |-> 0, rows_skipped |-> 0,
     waited |-> FALSE]  \* history: one of its statements had to wait for
                        \* the other transaction

\* the record the loop of connection r handles next, if any
HasNext(r) == conn[r].pc = "rows" /\ conn[r].idx < Len(conn[r].batch)
NextTxn(r) == conn[r].batch[conn[r].idx + 1]

\* another open transaction holds an uncommitted write of identifier id
Holders(r, id) ==
    {q \in Runs \ {r} :
        /\ conn[q].pc = "rows"
        /\ \E i \in 1..Len(conn[q].writes) :
              conn[q].writes[i].transaction_id = id}

\* connection r is about to execute UPSERT_SQL and would wait for q
WaitsFor(r, q) ==
    /\ HasNext(r)
    /\ ~TransformRaises(NextTxn(r))
    /\ _transform_transaction(NextTxn(r)) # None
    /\ q \in Holders(r, _transform_transaction(NextTxn(r))[1].transaction_id)

\* one iteration of `for txn in transactions` on connection r
ConnRow(r) ==
    /\ HasNext(r)
    /\ ~\E q \in Runs : WaitsFor(r, q)
    /\ LET txn == NextTxn(r)
           step == [idx |-> conn[r].idx + 1]
       IN conn' = [conn EXCEPT ![r] =
            IF TransformRaises(txn)
            THEN [pc |-> "raised", writes |-> <<>>] @@ step @@ @
            ELSE IF _transform_transaction(txn) = None
            THEN [rows_skipped |-> Increment(@.rows_skipped)] @@ step @@ @
            ELSE [writes |-> Append(@.writes, _transform_transaction(txn)[1]),
                  rows_upserted |-> Increment(@.rows_upserted)]
                 @@ step @@ @]
    /\ UNCHANGED <<clientVars, fetchVars, storeVars, flightVars>>

\* cur.execute is sent and waits for the other transaction to end
ConnWait(r) ==
    /\ ~conn[r].waited
    /\ \E q \in Runs : WaitsFor(r, q)
    /\ conn' = [conn EXCEPT ![r] = [waited |-> TRUE] @@ @]
    /\ UNCHANGED <<clientVars, fetchVars, storeVars, flightVars>>

\* cur.execute waits for the other transaction, which waits for this one:
\* the server aborts this statement; except branch, rollback, raise
ConnDeadlock(r) ==
    /\ \E q \in Runs : WaitsFor(r, q) /\ WaitsFor(q, r)
    /\ conn' = [conn EXCEPT ![r] = [pc |-> "raised", writes |-> <<>>] @@ @]
    /\ UNCHANGED <<clientVars, fetchVars, storeVars, flightVars>>

\* conn.commit() after the loop, and `return rows_upserted`
ConnCommit(r) ==
    /\ conn[r].pc = "rows"
    /\ conn[r].idx = Len(conn[r].batch)
    /\ store' = Commit(store, conn[r].writes)
    /\ conn' = [conn EXCEPT ![r] = [pc |-> "returned", writes |-> <<>>] @@ @]
    /\ UNCHANGED <<clientVars, fetchVars, flightVars, work, batch, idx,
                   rows_upserted, rows_skipped, upc, storeBefore, uraised,
                   foreign>>

InitUpserts ==
    /\ InitClient /\ sessionFile = None
    /\ store \in EarlierStores
    /\ work = store
    /\ storeBefore = store
    /\ batch = <<>> /\ idx = 0 /\ rows_upserted = 0 /\ rows_skipped = 0
    /\ upc = "idle" /\ uraised = None /\ foreign = {}
    /\ InitNoTransform /\ InitNoMain /\ InitNoResponse /\ InitNoRuns
    /\ flight = {} /\ awaiting = FALSE
    /\ conn \in [Runs -> {NewConn(b) : b \in Arrangements}]

NextUpserts ==
    \/ \E r \in Runs :
          /\ ConnRow(r)
          /\ UNCHANGED <<normVars, mainVars, respVars, sessVars>>
    \/ \E r \in Runs :
          /\ ConnWait(r)
          /\ UNCHANGED <<normVars, mainVars, respVars, sessVars>>
    \/ \E r \in Runs :
          /\ ConnDeadlock(r)
          /\ UNCHANGED <<normVars, mainVars, respVars, sessVars>>
    \/ \E r \in Runs :
          /\ ConnCommit(r)
          /\ UNCHANGED <<normVars, mainVars, respVars, sessVars>>

SpecUpserts == InitUpserts /\ [][NextUpserts]_vars

\* ------------------------------------------- claims on concurrent upserts
\* the table a single call of upsert_transactions leaves, started on tbl
\* with the batch b and completed alone
RECURSIVE SingleRun(_, _)
SingleRun(tbl, b) ==
    IF b = <<>>
    THEN tbl
    ELSE SingleRun(IF Valid(Head(b))
                   THEN InsertOnConflictUpdate(tbl,
                            _transform_transaction(Head(b))[1], UPSERT_SET)
                   ELSE tbl,
                   Tail(b))

RowsOf(tbl) == {tbl[i] : i \in 1..Len(tbl)}

\* C24 (concurrent re-ingestion): two calls of upsert_transactions write the
\* same records with the same values on two connections; whatever the order
\* of their row writes and commits, from the first commit on (the call that
\* commits second upserts what is already there) and when both calls are
\* over, the committed table holds the rows a single call leaves: one row
\* for each identifier of the batch, with the values of its record.
C24_ConcurrentUpsertsAgree ==
    (\E r \in DOMAIN conn : conn[r].pc = "returned") =>
        /\ RowsOf(store) = RowsOf(SingleRun(storeBefore, conn["a"].batch))
        /\ Len(store) = Len(SingleRun(storeBefore, conn["a"].batch))
        /\ \A t \in SharedRecords :
              Valid(t) =>
                 /\ Len(RowsWith(store, Get(t, "id"))) = 1
                 /\ \A c \in UPSERT_SET \cup {"transaction_id"} :
                       RowsWith(store, Get(t, "id"))[1][c]
                         = _transform_transaction(t)[1][c]

C24_Witness ==
    /\ \A r \in Runs : conn[r].pc = "returned" /\ conn[r].rows_upserted = 2
    /\ conn["b"].waited
    /\ conn["a"].batch # conn["b"].batch
    /\ storeBefore = <<TestRow>>
    /\ Len(store) = 2

\* ------------------------------------- claims on the failures of a request
\* the text holds "401" or, in whatever case, "unauthorized"
MentionsUnauthorized(msg) ==
    \/ \E i \in 1..(Len(msg) - 2) :
          msg[i] = "4" /\ msg[i + 1] = "0" /\ msg[i + 2] = "1"
    \/ \E i \in 0..(Len(msg) - Len(MsgUnauthorized)) :
          \A j \in 1..Len(MsgUnauthorized) :
             LowerChar(msg[i + j]) = LowerChar(MsgUnauthorized[j])

OtherErrors == {e \in PageErrors : ~MentionsUnauthorized(e.msg)}

\* C25 (other failures): a page request, first attempt or retry, that fails
\* with an error whose message holds neither "401" nor "unauthorized" leaves
\* the client object, the session file and the session counter of the service
\* as they are (no login), adds only the failed request to the history, and
\* ends fetch_transactions with that same exception; no request follows.
C25_OtherErrorsPropagate ==
    /\ [][\A e \in OtherErrors :
            (FetchPageFrom({}, {}, {e}) \/ RetryPageFrom({}, {}, {e})) =>
               /\ client' = client
               /\ sessionFile' = sessionFile
               /\ nextSession' = nextSession
               /\ log' = Append(log, <<"req", offset, client[1], e.kind, 0>>)
               /\ pc' = "done"
               /\ outcome' = "raised"
               /\ raised' = Some(e)
               /\ result' = None
               /\ all_results' = all_results]_vars
    /\ []((raised # None /\ raised[1] \in OtherErrors) =>
            /\ pc = "done"
            /\ IsReq(log[Len(log)])
            /\ log[Len(log)][4] = raised[1].kind
            /\ log[Len(log)][3] = client[1])

C25_Witness ==
    /\ outcome = "raised"
    /\ raised = Some([kind |-> "ratelimit", msg |-> Msg429])
    /\ Len(log) = 2
    /\ log[1][4] = "ok"
    /\ log[2][4] = "ratelimit"
    /\ client = Some(1)
    /\ sessionFile = Some(1)
    /\ nextSession = 2

\* C26 (failed re-authentication): when a page request failed with an error
\* taken as unauthorized and the login of _create_fresh_client then fails,
\* the login error leaves fetch_transactions and nothing is returned, the
\* failed login is the last thing the call did (the page is not retried),
\* the client still holds the session the failed request was sent on, and the
\* session file is gone.
C26_FailedReauthPropagates ==
    \A i \in 1..Len(log) :
        (log[i][1] = "reauth" /\ log[i][4] = "login") =>
            /\ i = Len(log)
            /\ i > 1
            /\ FirstAttempt(i - 1)
            /\ log[i - 1][4] \in {e.kind : e \in PageErrors}
            /\ log[i - 1][2] = log[i][2]
            /\ pc = "done"
            /\ outcome = "raised"
            /\ raised = Some(LoginError)
            /\ result = None
            /\ client = Some(log[i - 1][3])
            /\ sessionFile = None

C26_Witness ==
    /\ Len(log) = 3
    /\ log[1][4] = "ok"
    /\ log[2] = <<"req", limit, 1, "unauthorized", 0>>
    /\ log[3] = <<"reauth", limit, 0, "login", 0>>
    /\ raised = Some(LoginError)
    /\ client = Some(1)
    /\ sessionFile = None

\* the positions of the re-authentications in the history
Reauths == {i \in 1..Len(log) : log[i][1] = "reauth"}

\* C27 (retry budget per page): a page request, first attempt, that fails
\* with an unauthorized error is followed by a re-authentication however many
\* re-authentications the call has made before; the re-authentications of a
\* call are at pairwise different offsets, so their number is at most the
\* number of distinct offsets requested; MAX_RETRIES bounds nothing.
C27_RetryBudgetPerPage ==
    /\ ( /\ log # <<>>
         /\ FirstAttempt(Len(log))
         /\ log[Len(log)][4] = "unauthorized" ) => pc = "reauth"
    /\ Cardinality({log[i][2] : i \in Reauths}) = Cardinality(Reauths)
    /\ Cardinality(Reauths)
         <= Cardinality({log[i][2] : i \in (1..Len(log)) \ Reauths})

C27_Witness ==
    /\ outcome = "returned"
    /\ Cardinality(Reauths) = MAX_RETRIES + 1
    /\ \A i \in Reauths : IsReauthOk(i) /\ log[i + 1][4] = "ok"
    /\ Len(result[1]) = Cardinality(Reauths)

\* C28 (postcondition of a return): when fetch_transactions has returned,
\* its last request was answered, and either at least as many records as the
\* total count of the first page are returned or that last answer held no
\* record; the returned list is the records of the answered pages, page after
\* page in the order of the requests, each record once and in its place, so
\* it may be longer than the total count.
C28_ReturnPostcondition ==
    outcome = "returned" =>
        /\ IsReq(log[Len(log)])
        /\ log[Len(log)][4] = "ok"
        /\ Len(result[1]) >= Total \/ log[Len(log)][5] = 0
        /\ result[1] = Collected(Len(log))
        /\ result[1] = all_results

C28_Witness ==
    /\ outcome = "returned"
    /\ limit = 2
    /\ Total = 3
    /\ Len(log) = 2
    /\ result[1] = <<<<1, 1>>, <<1, 2>>, <<2, 1>>, <<2, 2>>>>
====
